---- MODULE Spec2Model ----
(***************************************************************************)
(* A model of the Java expression type checker of java_type_checker:       *)
(* expressions.py (Variable, Literal, NullLiteral, MethodCall,             *)
(* ConstructorCall with static_type() and check_types()) over the type     *)
(* registry of types.py (Type, is_subtype_of, method_named, constructor).  *)
(*                                                                         *)
(* A type is named by its name.  An expression is a record whose fields    *)
(* are the attributes the constructors of expressions.py assign.  A call   *)
(* of static_type() or check_types() either returns or raises; both are    *)
(* values here: Ok(v) is a return, Raise(k, msg) an exception of class k   *)
(* whose message is the sequence of the pieces msg that str.format joins.  *)
(***************************************************************************)
EXTENDS Integers, Sequences, FiniteSets, TLC

VARIABLES tree, registry, outcomes, stype

vars == <<tree, registry, outcomes, stype>>

\* The longest argument list of the root call of a tree.
MaxArgs == 2

\* The number of check_types() calls made on a tree.
MaxChecks == 2

(***************************************************************************)
(* Returns and exceptions                                                  *)
(***************************************************************************)
JavaTypeError == "JavaTypeError"

NoSuchMethod == "NoSuchMethod"

Ok(v) == [kind |-> "ok", val |-> v]

Raise(k, msg) == [kind |-> k, val |-> msg]

\* No call has been made yet.
NotRun == [kind |-> "none", val |-> <<>>]

\* An exception raised inside a loop or a list comprehension leaves it at
\* the first element that raises: the leftmost raise of rs, or a plain return.
first_raise(rs) ==
    IF \E i \in 1..Len(rs) : rs[i].kind # "ok"
    THEN rs[CHOOSE i \in 1..Len(rs) :
                /\ rs[i].kind # "ok"
                /\ \A j \in 1..(i - 1) : rs[j].kind = "ok"]
    ELSE Ok(<<>>)

(***************************************************************************)
(* The type registry (types.py)                                            *)
(***************************************************************************)
Type_void == "void"

Type_int == "int"

Type_double == "double"

Type_null == "null"

Special == {Type_void, Type_int, Type_double, Type_null}

\* class Object; class C extends Object; class B extends C; class A extends B
Classes == {"Object", "C", "B", "A"}

Types == Special \cup Classes

\* The supertype of the root of the hierarchy.
NoType == "none"

Signature(argument_types, return_type) ==
    [argument_types |-> argument_types, return_type |-> return_type]

NoMethods == [n \in {} |-> Signature(<<>>, Type_void)]

\* C declares m(C, int): C and f(): int; B overrides f(): void.
TheRegistry ==
    [supertype |-> [c \in Classes |->
                      CASE c = "Object" -> NoType
                        [] c = "C" -> "Object"
                        [] c = "B" -> "C"
                        [] c = "A" -> "B"],
     methods |-> [c \in Classes |->
                      CASE c = "Object" -> NoMethods
                        [] c = "C" -> ("m" :> Signature(<<"C", Type_int>>, "C"))
                                   @@ ("f" :> Signature(<<>>, Type_int))
                        [] c = "B" -> ("f" :> Signature(<<>>, Type_void))
                        [] c = "A" -> NoMethods],
     constructor |-> [c \in Classes |->
                      CASE c = "Object" -> [argument_types |-> <<>>]
                        [] c = "C" -> [argument_types |-> <<>>]
                        [] c = "B" -> [argument_types |-> <<"C">>]
                        [] c = "A" -> [argument_types |-> <<"C", Type_int>>]]]

\* a is b, or null against a class, or a's supertype chain reaches b.
RECURSIVE is_subtype_of(_, _)
is_subtype_of(a, b) ==
    IF a = b THEN TRUE
    ELSE IF a = Type_null THEN b \in Classes
    ELSE IF a \in Classes /\ registry.supertype[a] # NoType
         THEN is_subtype_of(registry.supertype[a], b)
    ELSE FALSE

\* The class that declares method name for type t: t itself, then its
\* supertype chain, the first match; NoType when there is none.
RECURSIVE declaring_class(_, _)
declaring_class(t, name) ==
    IF t \notin Classes THEN NoType
    ELSE IF name \in DOMAIN registry.methods[t] THEN t
    ELSE declaring_class(registry.supertype[t], name)

\* method_named(name) on type t: the signature, or NoSuchMethod.
method_named(t, name) ==
    IF declaring_class(t, name) = NoType
    THEN Raise(NoSuchMethod, <<t, "has no method named", name>>)
    ELSE Ok(registry.methods[declaring_class(t, name)][name])

(***************************************************************************)
(* Expressions (expressions.py)                                            *)
(***************************************************************************)
Variable(name, declared_type) ==
    [kind |-> "Variable", name |-> name, declared_type |-> declared_type]

Literal(value, type) ==
    [kind |-> "Literal", value |-> value, type |-> type]

NullLiteral ==
    [kind |-> "NullLiteral", value |-> "null", type |-> Type_null]

MethodCall(receiver, method_name, args) ==
    [kind |-> "MethodCall", receiver |-> receiver,
     method_name |-> method_name, args |-> args]

ConstructorCall(instantiated_type, args) ==
    [kind |-> "ConstructorCall", instantiated_type |-> instantiated_type,
     args |-> args]

\* names(named_things): "(" + ", ".join(names) + ")"
names(named_things) ==
    <<"(">> \o named_things \o <<")">>

RECURSIVE static_type(_), check_types(_)

\* The static types of a sequence of expressions, each a return or a raise.
static_types(es) == [i \in 1..Len(es) |-> static_type(es[i])]

\* The types of a sequence of static_type() calls that all returned.
types_of(rs) == [i \in 1..Len(rs) |-> rs[i].val[1]]

\* MethodCall.static_type: the lookup of the method in the class only.
MethodCall_static_type_own_class(e) ==
    LET r == static_type(e.receiver) IN
    IF r.kind # "ok" THEN r
    ELSE IF r.val[1] \in Classes /\ e.method_name \in DOMAIN registry.methods[r.val[1]]
         THEN Ok(<<registry.methods[r.val[1]][e.method_name].return_type>>)
    ELSE Raise(NoSuchMethod, <<r.val[1], "has no method named", e.method_name>>)

MethodCall_static_type(e) ==
    LET r == static_type(e.receiver) IN
    IF r.kind # "ok" THEN r
    ELSE LET m == method_named(r.val[1], e.method_name) IN
         IF m.kind # "ok" THEN m
         ELSE Ok(<<m.val.return_type>>)

static_type(e) ==
    CASE e.kind = "Variable" -> Ok(<<e.declared_type>>)
      [] e.kind = "Literal" -> Ok(<<e.type>>)
      [] e.kind = "NullLiteral" -> Ok(<<Type_null>>)
      [] e.kind = "MethodCall" -> MethodCall_static_type(e)
      [] e.kind = "ConstructorCall" -> Ok(<<e.instantiated_type>>)

\* excludes of MethodCall.check_types
MethodCall_excludes == {Type_void, Type_int, Type_double}

\* excludes of ConstructorCall.check_types
ConstructorCall_excludes == {Type_void, Type_int, Type_double, Type_null}

\* MethodCall.check_types with the four-element excludes list of
\* ConstructorCall.check_types in place of the null test.
MethodCall_receiver_check_null_excluded(t, method_name) ==
    IF t \in ConstructorCall_excludes
    THEN Raise(JavaTypeError, <<"Type", t, "does not have methods">>)
    ELSE IF method_named(t, method_name).kind # "ok"
    THEN Raise(NoSuchMethod, <<t, "has no method named", method_name>>)
    ELSE Ok(<<>>)

\* MethodCall.check_types without the test for void, int and double.
MethodCall_receiver_check_no_excludes(t, method_name) ==
    IF t = Type_null
    THEN Raise(NoSuchMethod, <<"Cannot invoke method", method_name, "on null">>)
    ELSE IF method_named(t, method_name).kind # "ok"
    THEN Raise(NoSuchMethod, <<t, "has no method named", method_name>>)
    ELSE Ok(<<>>)

\* The checks of the receiver's static type t: null, then void, int and
\* double, then the method's existence (NoSuchMethod caught and raised anew).
MethodCall_receiver_check(t, method_name) ==
    IF t = Type_null
    THEN Raise(NoSuchMethod, <<"Cannot invoke method", method_name, "on null">>)
    ELSE IF t \in MethodCall_excludes
    THEN Raise(JavaTypeError, <<"Type", t, "does not have methods">>)
    ELSE IF method_named(t, method_name).kind # "ok"
    THEN Raise(NoSuchMethod, <<t, "has no method named", method_name>>)
    ELSE Ok(<<>>)

\* Too many/few arguments, then wrong argument type (also null): args are
\* the arguments' static types, expected_types the signature's.
MethodCall_arguments_check(t, method_name, expected_types, args) ==
    IF Len(expected_types) # Len(args)
    THEN Raise(JavaTypeError,
               <<"Wrong number of arguments for", t, method_name, "expected",
                 ToString(Len(expected_types)), "got", ToString(Len(args))>>)
    ELSE IF \E i \in 1..Len(expected_types) :
               \/ ~is_subtype_of(args[i], expected_types[i])
               \/ (args[i] = Type_null /\ expected_types[i] \in MethodCall_excludes)
    THEN Raise(JavaTypeError,
               <<t, method_name, "expects arguments of type">>
               \o names(expected_types) \o <<"but got">> \o names(args))
    ELSE Ok(<<>>)

\* The deep check with the receiver checked like an argument, first.
MethodCall_deep_check_with_receiver(e) ==
    first_raise([i \in 1..(Len(e.args) + 1) |->
                    check_types((<<e.receiver>> \o e.args)[i])])

\* Deep expression: check_types() of each argument, in order.
MethodCall_deep_check(e) ==
    first_raise([i \in 1..Len(e.args) |-> check_types(e.args[i])])

MethodCall_check_types(e) ==
    LET r == static_type(e.receiver) IN
    IF r.kind # "ok" THEN r
    ELSE
    LET t == r.val[1]
        rc == MethodCall_receiver_check(t, e.method_name)
    IN
    IF rc.kind # "ok" THEN rc
    ELSE
    LET expected_types == method_named(t, e.method_name).val.argument_types
        rs == static_types(e.args)
    IN
    IF first_raise(rs).kind # "ok" THEN first_raise(rs)
    ELSE
    LET ac == MethodCall_arguments_check(t, e.method_name, expected_types, types_of(rs)) IN
    IF ac.kind # "ok" THEN ac
    ELSE MethodCall_deep_check(e)

\* zip(args, expected_types): the positions both sequences have.
zip(args, expected_types) ==
    1..(IF Len(args) < Len(expected_types) THEN Len(args) ELSE Len(expected_types))

\* The constructor's argument check with subtyping in place of equality.
ConstructorCall_arguments_check_subtype(t, expected_types, args) ==
    IF Len(args) # Len(expected_types)
    THEN Raise(JavaTypeError,
               <<"Wrong number of arguments for", t, "constructor", "expected",
                 ToString(Len(expected_types)), "got", ToString(Len(args))>>)
    ELSE
    LET checkList == {i \in zip(args, expected_types) :
                         \/ is_subtype_of(args[i], expected_types[i])
                         \/ (args[i] = Type_null
                             /\ expected_types[i] \notin ConstructorCall_excludes)}
    IN
    IF Cardinality(checkList) # Len(args)
    THEN Raise(JavaTypeError,
               <<t, "constructor expects arguments of type">>
               \o names(expected_types) \o <<"but got">> \o names(args))
    ELSE Ok(<<>>)

\* Wrong number of arguments, then wrong argument types (also null):
\* checkList holds one True per position that matches, and its length is
\* compared with the number of arguments.
ConstructorCall_arguments_check(t, expected_types, args) ==
    IF Len(args) # Len(expected_types)
    THEN Raise(JavaTypeError,
               <<"Wrong number of arguments for", t, "constructor", "expected",
                 ToString(Len(expected_types)), "got", ToString(Len(args))>>)
    ELSE
    LET checkList == {i \in zip(args, expected_types) :
                         \/ args[i] = expected_types[i]
                         \/ (args[i] = Type_null
                             /\ expected_types[i] \notin ConstructorCall_excludes)}
    IN
    IF Cardinality(checkList) # Len(args)
    THEN Raise(JavaTypeError,
               <<t, "constructor expects arguments of type">>
               \o names(expected_types) \o <<"but got">> \o names(args))
    ELSE Ok(<<>>)

\* ConstructorCall.check_types with the instantiable test moved before the
\* deep check of the arguments.
ConstructorCall_check_types_type_first(e) ==
    LET t == e.instantiated_type
        deep == first_raise([i \in 1..Len(e.args) |-> check_types(e.args[i])])
    IN
    IF t \in ConstructorCall_excludes
    THEN Raise(JavaTypeError, <<"Type", t, "is not instantiable">>)
    ELSE IF deep.kind # "ok" THEN deep
    ELSE
    LET rs == static_types(e.args) IN
    IF first_raise(rs).kind # "ok" THEN first_raise(rs)
    ELSE ConstructorCall_arguments_check(
             t, registry.constructor[t].argument_types, types_of(rs))

ConstructorCall_check_types(e) ==
    LET t == e.instantiated_type
        deep == first_raise([i \in 1..Len(e.args) |-> check_types(e.args[i])])
    IN
    IF deep.kind # "ok" THEN deep
    ELSE IF t \in ConstructorCall_excludes
    THEN Raise(JavaTypeError, <<"Type", t, "is not instantiable">>)
    ELSE
    LET rs == static_types(e.args) IN
    IF first_raise(rs).kind # "ok" THEN first_raise(rs)
    ELSE ConstructorCall_arguments_check(
             t, registry.constructor[t].argument_types, types_of(rs))

check_types(e) ==
    CASE e.kind = "Variable" -> Ok(<<>>)
      [] e.kind = "Literal" -> Ok(<<>>)
      [] e.kind = "NullLiteral" -> Ok(<<>>)
      [] e.kind = "MethodCall" -> MethodCall_check_types(e)
      [] e.kind = "ConstructorCall" -> ConstructorCall_check_types(e)

(***************************************************************************)
(* The trees handed to the checker                                         *)
(***************************************************************************)
SeqsUpTo(S, n) == UNION {[1..k -> S] : k \in 0..n}

MethodNames == {"m", "f", "nope"}

Leaves ==
    {Variable("a", "A"), Variable("c", "C"), Literal("5", Type_int), NullLiteral}

\* Calls over the leaves: a call with too few arguments, a call of a method
\* that does not exist, a valid construction, a construction whose argument
\* invokes a method on null.
NestedCalls ==
    {MethodCall(Variable("a", "A"), n, <<>>) : n \in {"m", "nope"}}
    \cup {ConstructorCall("C", a) :
             a \in {<<>>, <<MethodCall(NullLiteral, "m", <<>>)>>}}

Arguments == Leaves \cup NestedCalls

\* Receivers add the types void and double and a construction whose
\* argument has the wrong type.
Receivers ==
    Arguments
    \cup {Literal("1.5", Type_double),
          Variable("n", Type_int),
          MethodCall(Variable("a", "A"), "f", <<>>),
          ConstructorCall("B", <<Variable("a", "A")>>)}

Trees ==
    Leaves
    \cup {MethodCall(r, n, a) :
             r \in Receivers, n \in MethodNames, a \in SeqsUpTo(Arguments, MaxArgs)}
    \cup {ConstructorCall(t, a) : t \in Types, a \in SeqsUpTo(Arguments, MaxArgs)}

(***************************************************************************)
(* The checker's calls on a tree                                           *)
(***************************************************************************)
Init ==
    /\ tree \in Trees
    /\ registry = TheRegistry
    /\ outcomes = <<>>
    /\ stype = NotRun

\* A check_types() that empties the argument list it has walked.
CheckTypes_consuming_args ==
    /\ Len(outcomes) < MaxChecks
    /\ outcomes' = Append(outcomes, check_types(tree))
    /\ tree' = IF tree.kind \in {"MethodCall", "ConstructorCall"}
               THEN [tree EXCEPT !.args = <<>>]
               ELSE tree
    /\ UNCHANGED <<registry, stype>>

\* tree.check_types()
CheckTypes ==
    /\ Len(outcomes) < MaxChecks
    /\ outcomes' = Append(outcomes, check_types(tree))
    /\ UNCHANGED <<tree, registry, stype>>

\* tree.static_type()
StaticType ==
    /\ stype' = static_type(tree)
    /\ UNCHANGED <<tree, registry, outcomes>>

Next == CheckTypes \/ StaticType

Spec == Init /\ [][Next]_vars

(***************************************************************************)
(* Properties                                                              *)
(***************************************************************************)
\* check_types() has been called on the tree.
Checked == Len(outcomes) > 0

\* What the last check_types() call did.
outcome == outcomes[Len(outcomes)]

IsCall(e) == e.kind \in {"MethodCall", "ConstructorCall"}

\* The receiver of the root MethodCall has a static type, and it is t.
ReceiverType(t) ==
    /\ tree.kind = "MethodCall"
    /\ static_type(tree.receiver) = Ok(<<t>>)

\* The root MethodCall's method resolves on the class of its receiver.
Resolves ==
    /\ tree.kind = "MethodCall"
    /\ static_type(tree.receiver).kind = "ok"
    /\ declaring_class(static_type(tree.receiver).val[1], tree.method_name) # NoType

\* The parameter types the root call is checked against.
Expected ==
    IF tree.kind = "MethodCall"
    THEN LET t == static_type(tree.receiver).val[1] IN
         registry.methods[declaring_class(t, tree.method_name)][tree.method_name]
             .argument_types
    ELSE registry.constructor[tree.instantiated_type].argument_types

ArgsHaveTypes == \A i \in 1..Len(tree.args) : static_type(tree.args[i]).kind = "ok"

ArgType(i) == static_type(tree.args[i]).val[1]

ArgsCheck == \A i \in 1..Len(tree.args) : check_types(tree.args[i]).kind = "ok"

\* C1: a MethodCall whose receiver's static type is null raises
\* NoSuchMethod from every check_types() call, whatever its method name and
\* its arguments are.
C1_NullReceiver ==
    (Checked /\ ReceiverType(Type_null))
        => \A k \in 1..Len(outcomes) : outcomes[k].kind = NoSuchMethod

\* C1 witness: a checked call on null with two arguments, one of which fails
\* its own check with a JavaTypeError.
C1_Witness ==
    /\ Checked
    /\ ReceiverType(Type_null)
    /\ Len(tree.args) = 2
    /\ \E i \in 1..Len(tree.args) : check_types(tree.args[i]).kind = JavaTypeError
    /\ outcome.kind = NoSuchMethod

\* C2: a MethodCall whose receiver's static type is void, int or double
\* raises JavaTypeError, not NoSuchMethod, whatever its method name and its
\* arguments are.
C2_PrimitiveReceiver ==
    (Checked /\ \E t \in {Type_void, Type_int, Type_double} : ReceiverType(t))
        => \A k \in 1..Len(outcomes) : outcomes[k].kind = JavaTypeError

\* C2 witness: a checked call on a receiver of static type void (itself a
\* method call) with an argument whose method does not exist.
C2_Witness ==
    /\ Checked
    /\ ReceiverType(Type_void)
    /\ tree.receiver.kind = "MethodCall"
    /\ \E i \in 1..Len(tree.args) : static_type(tree.args[i]).kind = NoSuchMethod
    /\ outcome.kind = JavaTypeError

\* C3 (as claimed): when a extends b and b extends c, a Variable declared a
\* in a position whose parameter type is c type-checks in a MethodCall and in
\* a ConstructorCall, the argument count matching and every other argument
\* valid and of exactly its parameter's type.
C3_Transitivity ==
    (/\ Checked
     /\ IsCall(tree)
     /\ tree.kind = "MethodCall" => Resolves
     /\ tree.kind = "ConstructorCall" => tree.instantiated_type \in Classes
     /\ Len(tree.args) = Len(Expected)
     /\ \E i \in 1..Len(tree.args) :
           /\ tree.args[i].kind = "Variable"
           /\ \E a, b \in Classes :
                 /\ tree.args[i].declared_type = a
                 /\ registry.supertype[a] = b
                 /\ registry.supertype[b] = Expected[i]
           /\ \A j \in (1..Len(tree.args)) \ {i} :
                 /\ check_types(tree.args[j]).kind = "ok"
                 /\ static_type(tree.args[j]) = Ok(<<Expected[j]>>))
        => outcome.kind = "ok"

\* C4 (as claimed): a MethodCall whose method resolves on the class of its
\* receiver and whose argument count differs from the signature's parameter
\* count fails with JavaTypeError, whatever its arguments are.
C4_ArityMismatch ==
    (/\ Checked
     /\ Resolves
     /\ Len(tree.args) # Len(Expected))
        => outcome.kind = JavaTypeError

\* C5: a ConstructorCall checks its arguments left to right before its
\* instantiated type: the error of the leftmost argument that fails its check
\* is the error raised, and "not instantiable" is raised only when every
\* argument passed its check.
C5_ArgumentsFirst ==
    (Checked /\ tree.kind = "ConstructorCall")
        => /\ \A i \in 1..Len(tree.args) :
                 (/\ check_types(tree.args[i]).kind # "ok"
                  /\ \A j \in 1..(i - 1) : check_types(tree.args[j]).kind = "ok")
                     => outcome = check_types(tree.args[i])
           /\ outcome = Raise(JavaTypeError,
                              <<"Type", tree.instantiated_type, "is not instantiable">>)
                 => ArgsCheck

\* C5 witness: a checked construction of void, int, double or null whose two
\* arguments fail their checks with different errors.
C5_Witness ==
    /\ Checked
    /\ tree.kind = "ConstructorCall"
    /\ tree.instantiated_type \in ConstructorCall_excludes
    /\ Len(tree.args) = 2
    /\ check_types(tree.args[1]).kind = NoSuchMethod
    /\ check_types(tree.args[2]).kind = JavaTypeError
    /\ outcome = check_types(tree.args[1])

C7_StaticTypeAfterCheck ==
    /\ (Checked /\ outcomes[1].kind = "ok" /\ stype # NotRun)
          => /\ stype.kind = "ok"
             /\ tree.kind = "MethodCall"
                   => LET t == static_type(tree.receiver).val[1]
                          c == IF tree.method_name \in DOMAIN registry.methods[t]
                               THEN t
                               ELSE declaring_class(registry.supertype[t], tree.method_name)
                      IN stype.val = <<registry.methods[c][tree.method_name].return_type>>
             /\ tree.kind = "ConstructorCall"
                   => stype.val = <<tree.instantiated_type>>
    /\ (/\ stype # NotRun
        /\ tree.kind = "MethodCall"
        /\ static_type(tree.receiver).kind = "ok"
        /\ ~Resolves)
          => stype.kind = NoSuchMethod

\* C7 witness: a method call passed its check and static_type() gave the
\* return type of a method that the receiver's class inherits.
C7_Witness ==
    /\ Checked
    /\ outcome.kind = "ok"
    /\ stype.kind = "ok"
    /\ Resolves
    /\ declaring_class(static_type(tree.receiver).val[1], tree.method_name)
          # static_type(tree.receiver).val[1]

C9_FirstFailingStep ==
    LET t == static_type(tree.receiver).val[1]
        n == tree.method_name
        deep == [i \in 1..Len(tree.args) |-> check_types(tree.args[i])]
    IN
    IF t = Type_null
    THEN Raise(NoSuchMethod, <<"Cannot invoke method", n, "on null">>)
    ELSE IF t \in {Type_void, Type_int, Type_double}
    THEN Raise(JavaTypeError, <<"Type", t, "does not have methods">>)
    ELSE IF ~Resolves
    THEN Raise(NoSuchMethod, <<t, "has no method named", n>>)
    ELSE IF Len(tree.args) # Len(Expected)
    THEN Raise(JavaTypeError,
               <<"Wrong number of arguments for", t, n, "expected",
                 ToString(Len(Expected)), "got", ToString(Len(tree.args))>>)
    ELSE IF \E i \in 1..Len(tree.args) :
               /\ static_type(tree.args[i]).kind = "ok"
               /\ \/ ~is_subtype_of(ArgType(i), Expected[i])
                  \/ (ArgType(i) = Type_null
                      /\ Expected[i] \in {Type_void, Type_int, Type_double})
    THEN Raise(JavaTypeError,
               <<t, n, "expects arguments of type">> \o names(Expected)
               \o <<"but got">> \o names(types_of(static_types(tree.args))))
    ELSE IF \E i \in 1..Len(deep) : deep[i].kind # "ok"
    THEN deep[CHOOSE i \in 1..Len(deep) :
                  /\ deep[i].kind # "ok"
                  /\ \A j \in 1..(i - 1) : deep[j].kind = "ok"]
    ELSE Ok(<<>>)

\* C9 (as claimed): the error a MethodCall raises is the error of the first
\* failing step of the order null receiver, primitive receiver, method
\* resolution, arity, argument types, arguments' checks left to right.
C9_CheckOrder ==
    (/\ Checked
     /\ tree.kind = "MethodCall"
     /\ static_type(tree.receiver).kind = "ok")
        => outcome.kind = C9_FirstFailingStep.kind

\* C10: a ConstructorCall on a class whose arguments pass their checks and
\* match the constructor's parameter count succeeds exactly when every
\* argument's static type is its parameter's type, or is null with a
\* parameter that is none of void, int, double, null; it raises
\* JavaTypeError otherwise, also for a strict subtype of the parameter type.
C10_ExactTypes ==
    (/\ Checked
     /\ tree.kind = "ConstructorCall"
     /\ tree.instantiated_type \in Classes
     /\ ArgsCheck
     /\ Len(tree.args) = Len(Expected))
        => /\ outcome.kind = "ok"
                 <=> \A i \in 1..Len(tree.args) :
                        \/ ArgType(i) = Expected[i]
                        \/ (ArgType(i) = Type_null
                            /\ Expected[i] \notin
                                 {Type_void, Type_int, Type_double, Type_null})
           /\ outcome.kind \in {"ok", JavaTypeError}
           /\ (\E i \in 1..Len(tree.args) :
                  /\ ArgType(i) # Expected[i]
                  /\ ArgType(i) \in Classes
                  /\ is_subtype_of(ArgType(i), Expected[i]))
                 => outcome.kind = JavaTypeError

\* C10 witness: a checked construction with two arguments of which one is a
\* strict subtype of its parameter type and one is exactly of its type.
C10_Witness ==
    /\ Checked
    /\ tree.kind = "ConstructorCall"
    /\ tree.instantiated_type \in Classes
    /\ ArgsCheck
    /\ Len(tree.args) = 2
    /\ Len(Expected) = 2
    /\ ArgType(1) # Expected[1]
    /\ ArgType(1) \in Classes
    /\ is_subtype_of(ArgType(1), Expected[1])
    /\ ArgType(2) = Expected[2]
    /\ outcome.kind = JavaTypeError

====
